---------------------------- MODULE Spec2Model ----------------------------
(***************************************************************************)
(* DiskWiz (src/DiskWiz/DiskWiz.cpp): collection of the target paths, the  *)
(* ResultManager registry, one sizing task per target with the time-boxed  *)
(* early-abort heuristic, and main's display loop and join.                *)
(*                                                                         *)
(* A path is the sequence of the components that follow "C:\", so the     *)
(* drive root is <<>> and C:\U\b is <<"U","b">>.  A wide string is a       *)
(* sequence of one-character strings.                                      *)
(***************************************************************************)
EXTENDS Integers, Sequences, FiniteSets, TLC

(***************************************************************************)
(* Bounds of the model.                                                    *)
(***************************************************************************)
\* The steady clock is counted in units of the time limit; it stops here.
MaxClock == 1
\* Number of concurrent callers of the registry in SpecRM.
NumCallers == 1
\* Largest registry SpecRM builds, and the largest size it writes.
MaxEntries == 2
MaxSize == 1
\* Largest maxDepth SpecCollect passes to collectTargetPaths.
MaxDepthArg == 6
\* The limit SpecDisplay passes to displayResults (main passes 16).
MaxRows == 2

(***************************************************************************)
(* Program constants.                                                      *)
(***************************************************************************)
MAX_DEPTH == 3
\* std::chrono::minutes(1), in clock units.
timeLimit == 1
\* duration_cast<milliseconds>: milliseconds in one clock unit.
MsPerUnit == 60000

(***************************************************************************)
(* Wide strings.                                                           *)
(***************************************************************************)
Upper == <<"A","B","C","D","E","F","G","H","I","J","K","L","M",
           "N","O","P","Q","R","S","T","U","V","W","X","Y","Z">>
Lower == <<"a","b","c","d","e","f","g","h","i","j","k","l","m",
           "n","o","p","q","r","s","t","u","v","w","x","y","z">>

towlower(c) ==
    IF \E i \in 1..Len(Upper) : Upper[i] = c
    THEN Lower[CHOOSE i \in 1..Len(Upper) : Upper[i] = c]
    ELSE c

\* std::transform(w.begin(), w.end(), w.begin(), ::towlower)
ToLowerW(w) == [i \in 1..Len(w) |-> towlower(w[i])]

\* w.rfind(pre, 0) == 0 : pre is a prefix of w
StartsWith(w, pre) ==
    /\ Len(pre) <= Len(w)
    /\ \A i \in 1..Len(pre) : w[i] = pre[i]

EXCLUDED_PATHS == <<
    <<"C",":","\\","W","i","n","d","o","w","s">>,
    <<"C",":","\\","P","r","o","g","r","a","m","D","a","t","a">>,
    <<"C",":","\\","$","R","e","c","y","c","l","e",".","B","i","n">>,
    <<"C",":","\\","S","y","s","t","e","m"," ","V","o","l","u","m","e"," ",
      "I","n","f","o","r","m","a","t","i","o","n">>,
    <<"C",":","\\","R","e","c","o","v","e","r","y">>,
    <<"C",":","\\","p","a","g","e","f","i","l","e",".","s","y","s">>,
    <<"C",":","\\","h","i","b","e","r","f","i","l",".","s","y","s">> >>

(***************************************************************************)
(* The file system the program runs on.  It is static during a run.  The  *)
(* spelling of every file name, a node per path, and, for the "faulty"    *)
(* file system, the operations that raise an access error on a path.      *)
(***************************************************************************)
NameChars ==
    "WINDOWS" :> <<"W","I","N","D","O","W","S">> @@
    "a" :> <<"a">> @@ "U" :> <<"U">> @@ "b" :> <<"b">> @@ "d" :> <<"d">> @@
    "e" :> <<"e">> @@ "f" :> <<"f">> @@ "g" :> <<"g">> @@ "h" :> <<"h">> @@
    "k" :> <<"k">> @@ "l" :> <<"l">> @@ "m" :> <<"m">> @@ "s" :> <<"s">> @@
    "x" :> <<"x">> @@ "." :> <<".">> @@ ".." :> <<".",".">> @@
    "L" :> <<"L">> @@ "z" :> <<"z">> @@ "n" :> <<"n">> @@
    "j" :> <<"j">>

Dir(children) == [type |-> "dir", size |-> 0, children |-> children]
File(size) == [type |-> "file", size |-> size, children |-> <<>>]
\* A symbolic link to a regular file of the given size: status() and
\* file_size() follow the link, symlink_status() does not.
SymlinkToFile(size) ==
    [type |-> "symlink", size |-> size, children |-> <<>>, to |-> "file"]

\* A symbolic link to a directory: status() and directory_iterator follow
\* the link, so the link lists the children of the directory it names.
SymlinkToDir(children) ==
    [type |-> "symlink", size |-> 0, children |-> children, to |-> "dir"]

\* C:\ holds the excluded directory WINDOWS, the file a, the link L to a
\* directory of another volume and, three levels down, the directories d
\* and e and the link n.  The link j in d\s names the directory e: what is
\* listed through j are the files of e.
FileSystem ==
    <<>> :> Dir(<<"WINDOWS", "a", "U", "L">>) @@
    <<"L">> :> SymlinkToDir(<<"z">>) @@
    <<"L", "z">> :> Dir(<<>>) @@
    <<"U", "b", "n">> :> SymlinkToFile(4) @@
    <<"WINDOWS">> :> Dir(<<"x">>) @@
    <<"WINDOWS", "x">> :> File(9) @@
    <<"a">> :> File(1) @@
    <<"U">> :> Dir(<<"b">>) @@
    <<"U", "b">> :> Dir(<<"d", "e", "n">>) @@
    <<"U", "b", "d">> :> Dir(<<"f", "s", "l">>) @@
    <<"U", "b", "d", "s">> :> Dir(<<"h", "j", "g">>) @@
    <<"U", "b", "d", "s", "j">> :> SymlinkToDir(<<"k", "m">>) @@
    <<"U", "b", "d", "s", "j", "k">> :> File(7) @@
    <<"U", "b", "d", "s", "j", "m">> :> File(1) @@
    <<"U", "b", "d", "s", "h">> :> File(1) @@
    <<"U", "b", "d", "s", "g">> :> File(2) @@
    <<"U", "b", "d", "f">> :> File(3) @@
    <<"U", "b", "d", "l">> :> SymlinkToFile(8) @@
    <<"U", "b", "e">> :> Dir(<<"k", "m">>) @@
    <<"U", "b", "e", "k">> :> File(7) @@
    <<"U", "b", "e", "m">> :> File(1)

\* The directory of this volume a symbolic link names
LinkTarget == <<"U", "b", "d", "s", "j">> :> <<"U", "b", "e">>

\* On the faulty file system these operations throw filesystem_error.
Faults ==
    <<"U", "b", "d", "s", "h">> :> {"file_size"} @@
    <<"U", "b", "d", "s", "j">> :> {"symlink_status"} @@
    <<"U", "b", "e">> :> {"status"}

FileSystems == {"readable", "faulty"}

Throws(fsys, p, op) ==
    /\ fsys = "faulty"
    /\ p \in DOMAIN Faults
    /\ op \in Faults[p]

Exists(p) == p \in DOMAIN FileSystem

\* Mutant: no path is taken for a symbolic link.
is_symlink_Never(p) == FALSE

\* fs::is_symlink(p): symlink_status, the link itself.
is_symlink(p) == Exists(p) /\ FileSystem[p].type = "symlink"

\* The type status(p) reports: a symbolic link is followed.
StatusType(p) ==
    IF ~Exists(p) THEN "none"
    ELSE IF FileSystem[p].type = "symlink" THEN FileSystem[p].to
    ELSE FileSystem[p].type

is_directory(p) == StatusType(p) = "dir"
is_regular_file(p) == StatusType(p) = "file"
file_size(p) == FileSystem[p].size

\* The entries fs::directory_iterator(dir) yields, in its order.
Entries(dir) == [i \in 1..Len(FileSystem[dir].children) |->
                    dir \o <<FileSystem[dir].children[i]>>]

(***************************************************************************)
(* isExcludedPath                                                          *)
(***************************************************************************)
RECURSIVE LexicallyNormal(_)
\* fs::path::lexically_normal on the components: "." is dropped and ".."
\* removes the component before it (at the root it is dropped).
LexicallyNormal(p) ==
    IF p = <<>> THEN <<>>
    ELSE LET init == LexicallyNormal(SubSeq(p, 1, Len(p) - 1))
             last == p[Len(p)]
         IN IF last = "." THEN init
            ELSE IF last = ".."
                 THEN IF init = <<>> THEN <<>>
                      ELSE SubSeq(init, 1, Len(init) - 1)
            ELSE Append(init, last)

RECURSIVE JoinW(_)
JoinW(p) ==
    IF p = <<>> THEN <<>>
    ELSE IF Len(p) = 1 THEN NameChars[p[1]]
    ELSE NameChars[p[1]] \o <<"\\">> \o JoinW(Tail(p))

\* fs::path::wstring() of the path C:\p1\p2...
wstring(p) == <<"C", ":", "\\">> \o JoinW(p)

\* Mutant: the path is compared without case folding.
isExcludedPath_CaseSensitive(p) ==
    LET pathW == wstring(LexicallyNormal(p))
    IN \E i \in 1..Len(EXCLUDED_PATHS) :
          StartsWith(pathW, EXCLUDED_PATHS[i])

isExcludedPath(p) ==
    LET pathW == ToLowerW(wstring(LexicallyNormal(p)))
    IN \E i \in 1..Len(EXCLUDED_PATHS) :
          StartsWith(pathW, ToLowerW(EXCLUDED_PATHS[i]))

(***************************************************************************)
(* isTargetUnit                                                            *)
(***************************************************************************)
\* The number of elements of path.relative_path()
pathDepthOf(p) == Len(p)

isTargetUnit(fsys, path, depth) ==
    IF Throws(fsys, path, "symlink_status") THEN FALSE
    ELSE IF is_symlink(path) THEN FALSE
    ELSE IF depth = 0
         THEN ~Throws(fsys, path, "status") /\ is_regular_file(path)
    ELSE \/ pathDepthOf(path) = depth
         \/ /\ pathDepthOf(path) < depth
            /\ ~Throws(fsys, path, "status")
            /\ is_regular_file(path)

(***************************************************************************)
(* collectTargetPaths: the paths it passes to addTarget, in call order.    *)
(***************************************************************************)
RECURSIVE collectTargetPaths(_, _, _, _)
RECURSIVE CollectEntries(_, _, _, _)

CollectEntries(fsys, entries, depth, maxDepth) ==
    IF entries = <<>> THEN <<>>
    ELSE collectTargetPaths(fsys, Head(entries), depth, maxDepth)
         \o CollectEntries(fsys, Tail(entries), depth, maxDepth)

collectTargetPaths(fsys, root, currentDepth, maxDepth) ==
    IF isExcludedPath(root) \/ currentDepth > maxDepth THEN <<>>
    ELSE LET self == IF isTargetUnit(fsys, root, maxDepth)
                     THEN <<root>> ELSE <<>>
         IN IF Throws(fsys, root, "status") THEN self
            ELSE IF is_directory(root) /\ currentDepth < maxDepth
                 THEN IF Throws(fsys, root, "open") THEN self
                      ELSE self \o CollectEntries(fsys, Entries(root),
                                                  currentDepth + 1, maxDepth)
            ELSE self


(***************************************************************************)
(* State.                                                                  *)
(***************************************************************************)
VARIABLES
    fsys,              \* which file system the run sees
    now,               \* std::chrono::steady_clock::now(), in clock units
    results,           \* ResultManager::results
    completedCount,    \* ResultManager::completedCount (atomic)
    mutex,             \* ResultManager::mutex: 0, or the thread holding it
    mainpc,            \* where main is
    pending,           \* addTarget calls collectTargetPaths has yet to make
    targets,           \* main's local `results`, the snapshot it dispatches
    calculationTasks,  \* main's calculationTasks, one record per task
    joined,            \* how many futures main has waited for
    announced,         \* "Analysis complete!" has been printed
    progress,          \* displayResults' locals completed and total
    call,              \* root and maxDepth of the collectTargetPaths call
    frame,             \* the rows displayResults has written in this frame
    tieOrder           \* how this build's std::sort orders entries of equal size

vars == <<fsys, now, results, completedCount, mutex, mainpc, pending,
          targets, calculationTasks, joined, announced, progress, call,
          frame, tieOrder>>

\* main passes L"C:\\" to collectTargetPaths
ROOT == <<>>

(***************************************************************************)
(* ResultManager                                                           *)
(***************************************************************************)
\* PathSizeInfo(const fs::path& p, std::uintmax_t s, bool c)
PathSizeInfo(p, s, c) ==
    [path |-> p, size |-> s, calculated |-> c, isPartial |-> FALSE,
     elapsed |-> 0]

\* Mutant: the operations do not take the mutex.
CanLock_NoMutex == TRUE

\* std::lock_guard<std::mutex> lock(mutex) can be taken
CanLock == mutex = 0

\* std::find_if over results by path: the first match, 0 for results.end()
FindPath(res, path) ==
    IF \E i \in 1..Len(res) : res[i].path = path
    THEN CHOOSE i \in 1..Len(res) :
            /\ res[i].path = path
            /\ \A j \in 1..(i - 1) : res[j].path # path
    ELSE 0

\* Mutant: the test of calculated is inverted; no pending entry is written.
UpdateApplies_Inverted(res, it) == it # 0 /\ res[it].calculated

\* Mutant: the duplicate-write guard is left out.
UpdateApplies_NoGuard(res, it) == it # 0

\* update's test: it != results.end() && !it->calculated
UpdateApplies(res, it) == it # 0 /\ ~res[it].calculated

addTarget(res, path) == Append(res, PathSizeInfo(path, 0, FALSE))

\* Mutant: the comparator orders by ascending size.
SizeGreater_Ascending(a, b) == a.size < b.size

\* The comparator getTopN gives std::sort
SizeGreater(a, b) == a.size > b.size

\* What std::sort may leave: any arrangement of the copy in which no
\* element is ordered before one that precedes it (ties in any order).
SortedCopies(res) ==
    { s \in { [i \in 1..Len(res) |-> res[p[i]]] :
                    p \in Permutations(1..Len(res)) } :
        \A i, j \in 1..Len(res) : i < j => ~SizeGreater(s[j], s[i]) }

\* if (sorted.size() > n) sorted.resize(n)
Resize(sorted, n) == IF Len(sorted) > n THEN SubSeq(sorted, 1, n) ELSE sorted

\* The values getTopN(n) may return for the registry res
getTopN(res, n) == { Resize(s, n) : s \in SortedCopies(res) }

\* Mutant: any_of in place of all_of.
isComplete_AnyOf(res) == \E i \in 1..Len(res) : res[i].calculated

\* std::all_of(results, calculated)
isComplete(res) == \A i \in 1..Len(res) : res[i].calculated

totalTargets(res) == Len(res)

completedTargets == completedCount

(***************************************************************************)
(* A computation task: the lambda main hands std::async, and the           *)
(* recursion of calculateDirectorySizeWithTimeout as a stack of frames.    *)
(***************************************************************************)
\* The locals of a task.  size is uninitialised until the try block or its
\* handler assigns it; it is not read before.
NewTask(path) ==
    [pc |-> "start", path |-> path, startTime |-> 0, size |-> 0,
     isPartial |-> FALSE, elapsed |-> 0, stack |-> <<>>,
     currentTop |-> <<>>, completedRead |-> 0, totalRead |-> 0,
     it |-> 0, wrote |-> FALSE, updateCalls |-> 0]

\* One activation of calculateDirectorySizeWithTimeout(dir, ...): total,
\* isPartial and the entries the for loop has yet to visit.  A
\* directory_iterator that cannot be opened throws into the outer handler,
\* which returns {0, false}.
Frame(fs, dir) ==
    [dir |-> dir,
     rest |-> IF Throws(fs, dir, "open") THEN <<>> ELSE Entries(dir),
     total |-> 0, isPartial |-> FALSE]

Top(stack) == stack[Len(stack)]

ReplaceTop(stack, f) == SubSeq(stack, 1, Len(stack) - 1) \o <<f>>

RECURSIVE Settle_DropsPartial(_)
\* Mutant: the caller adds the size and forgets  isPartial |= partial.
Settle_DropsPartial(stack) ==
    IF Len(stack) >= 2 /\ Top(stack).rest = <<>>
    THEN LET callee == Top(stack)
             caller == stack[Len(stack) - 1]
         IN Settle_DropsPartial(SubSeq(stack, 1, Len(stack) - 2) \o
                   <<[caller EXCEPT !.total = @ + callee.total]>>)
    ELSE stack

RECURSIVE Settle(_)
\* return {total, isPartial} of every activation whose loop has ended, into
\* the caller's  total += size; isPartial |= partial
Settle(stack) ==
    IF Len(stack) >= 2 /\ Top(stack).rest = <<>>
    THEN LET callee == Top(stack)
             caller == stack[Len(stack) - 1]
         IN Settle(SubSeq(stack, 1, Len(stack) - 2) \o
                   <<[caller EXCEPT !.total = @ + callee.total,
                                    !.isPartial = @ \/ callee.isPartial]>>)
    ELSE stack

\* The inner try block on the entry the loop is at.
ProcessEntry(fs, stack) ==
    LET f == Top(stack)
        entry == Head(f.rest)
        next == [f EXCEPT !.rest = Tail(@)]
    IN IF Throws(fs, entry, "status") THEN ReplaceTop(stack, next)
       ELSE IF is_directory(entry)
            THEN ReplaceTop(stack, next) \o <<Frame(fs, entry)>>
       ELSE IF is_regular_file(entry)
            THEN ReplaceTop(stack,
                    [next EXCEPT !.total = @ +
                        IF Throws(fs, entry, "file_size") THEN 0
                        ELSE file_size(entry)])
       ELSE ReplaceTop(stack, next)

\* isPartial = true; break;
BreakPartial(stack) ==
    ReplaceTop(stack, [Top(stack) EXCEPT !.isPartial = TRUE, !.rest = <<>>])

\* The task after a step of the walk: still walking, or, when the outermost
\* activation has returned, holding size, isPartial and elapsed for update.
\* currentTop and the two counts are locals of one turn of the loop, and
\* startTime is not read after elapsed is computed: they are cleared when
\* they go out of use.
Resume(task, stack, clock) ==
    LET st == Settle(stack)
        turn == [task EXCEPT !.currentTop = <<>>, !.completedRead = 0,
                             !.totalRead = 0]
    IN IF Len(st) = 1 /\ st[1].rest = <<>>
       THEN [turn EXCEPT !.stack = <<>>, !.size = st[1].total,
                         !.isPartial = st[1].isPartial,
                         !.elapsed = (clock - task.startTime) * MsPerUnit,
                         !.startTime = 0,
                         !.pc = "update"]
       ELSE [turn EXCEPT !.stack = st, !.pc = "walk"]

\* Mutant: the test that this is the last uncompleted target is left out.
AbortCondition_NoLastCheck(task) ==
    \/ task.currentTop = <<>>
    \/ Top(task.stack).total > task.currentTop[1].size

\* manager.completedTargets() == manager.totalTargets() - 1 &&
\*   (currentTop.empty() || total > currentTop[0].size)
\* (a task exists only when totalTargets() >= 1, so the size_t subtraction
\* does not wrap)
AbortCondition(task) ==
    /\ task.completedRead = task.totalRead - 1
    /\ \/ task.currentTop = <<>>
       \/ Top(task.stack).total > task.currentTop[1].size

Tasks == 1..Len(calculationTasks)

SetTask(t, task) ==
    calculationTasks' = [calculationTasks EXCEPT ![t] = task]

\* The lambda up to the call of calculateDirectorySizeWithTimeout or the
\* file_size read.
TaskStart(t) ==
    LET task == calculationTasks[t]
        begun == [task EXCEPT !.startTime = now]
        measured(sz) == [task EXCEPT !.size = sz, !.isPartial = FALSE,
                                     !.elapsed = 0, !.pc = "update"]
    IN /\ task.pc = "start"
       /\ IF Throws(fsys, task.path, "status") THEN SetTask(t, measured(0))
          ELSE IF is_directory(task.path)
               THEN SetTask(t, Resume(begun, <<Frame(fsys, task.path)>>, now))
          ELSE IF Exists(task.path) /\ ~Throws(fsys, task.path, "file_size")
               THEN SetTask(t, measured(file_size(task.path)))
          ELSE SetTask(t, measured(0))
       /\ UNCHANGED <<fsys, now, results, completedCount, mutex, mainpc,
                      pending, targets, joined, announced,
                      progress, call, frame, tieOrder>>

\* One turn of the for loop up to the time check: the symlink test, then
\* either the entry itself or, past the time limit, the registry reads.
TaskVisit(t) ==
    LET task == calculationTasks[t]
        f == Top(task.stack)
        entry == Head(f.rest)
    IN /\ task.pc = "walk"
       /\ IF Throws(fsys, entry, "symlink_status")
          THEN SetTask(t, Resume(task,
                   ReplaceTop(task.stack, [f EXCEPT !.rest = <<>>]), now))
          ELSE IF is_symlink(entry)
               THEN SetTask(t, Resume(task,
                        ReplaceTop(task.stack, [f EXCEPT !.rest = Tail(@)]),
                        now))
          ELSE IF now - task.startTime >= timeLimit
               THEN SetTask(t, [task EXCEPT !.pc = "getTopN"])
          ELSE SetTask(t, Resume(task, ProcessEntry(fsys, task.stack), now))
       /\ UNCHANGED <<fsys, now, results, completedCount, mutex, mainpc,
                      pending, targets, joined, announced,
                      progress, call, frame, tieOrder>>

\* auto currentTop = manager.getTopN(1);
TaskGetTopN(t) ==
    LET task == calculationTasks[t]
    IN /\ task.pc = "getTopN"
       /\ CanLock
       /\ \E r \in getTopN(results, 1) :
             SetTask(t, [task EXCEPT !.currentTop = r, !.pc = "counts"])
       /\ UNCHANGED <<fsys, now, results, completedCount, mutex, mainpc,
                      pending, targets, joined, announced,
                      progress, call, frame, tieOrder>>

\* manager.completedTargets(): the atomic is read without the mutex.  The
\* two operands of == are evaluated in either order.
TaskReadCompleted(t) ==
    LET task == calculationTasks[t]
    IN /\ task.pc \in {"counts", "gotTotal"}
       /\ SetTask(t, [task EXCEPT
              !.completedRead = completedTargets,
              !.pc = IF task.pc = "counts" THEN "gotCompleted" ELSE "decide"])
       /\ UNCHANGED <<fsys, now, results, completedCount, mutex, mainpc,
                      pending, targets, joined, announced,
                      progress, call, frame, tieOrder>>

\* manager.totalTargets()
TaskReadTotal(t) ==
    LET task == calculationTasks[t]
    IN /\ task.pc \in {"counts", "gotCompleted"}
       /\ CanLock
       /\ SetTask(t, [task EXCEPT
              !.totalRead = totalTargets(results),
              !.pc = IF task.pc = "counts" THEN "gotTotal" ELSE "decide"])
       /\ UNCHANGED <<fsys, now, results, completedCount, mutex, mainpc,
                      pending, targets, joined, announced,
                      progress, call, frame, tieOrder>>

\* The early-abort branch: isPartial = true; break;
TaskAbort(t) ==
    LET task == calculationTasks[t]
    IN /\ task.pc = "decide"
       /\ AbortCondition(task)
       /\ SetTask(t, Resume(task, BreakPartial(task.stack), now))
       /\ UNCHANGED <<fsys, now, results, completedCount, mutex, mainpc,
                      pending, targets, joined, announced,
                      progress, call, frame, tieOrder>>

\* The check fails: the entry is processed.
TaskContinue(t) ==
    LET task == calculationTasks[t]
    IN /\ task.pc = "decide"
       /\ ~AbortCondition(task)
       /\ SetTask(t, Resume(task, ProcessEntry(fsys, task.stack), now))
       /\ UNCHANGED <<fsys, now, results, completedCount, mutex, mainpc,
                      pending, targets, joined, announced,
                      progress, call, frame, tieOrder>>

(***************************************************************************)
(* ResultManager::update, statement by statement: the mutex is held from  *)
(* the lock_guard to the return.                                           *)
(***************************************************************************)
\* lock, find_if, the test, and it->size = size, for the thread t whose
\* locals are task
UpdateEnter(t, task) ==
    LET it == FindPath(results, task.path)
    IN /\ task.pc = "update"
       /\ CanLock
       /\ IF UpdateApplies(results, it)
          THEN /\ results' = [results EXCEPT ![it].size = task.size]
               /\ mutex' = t
               /\ SetTask(t, [task EXCEPT !.it = it, !.wrote = TRUE,
                                 !.updateCalls = @ + 1,
                                 !.pc = "setCalculated"])
          ELSE /\ SetTask(t, [task EXCEPT !.it = it, !.wrote = FALSE,
                                 !.updateCalls = @ + 1, !.pc = "updated"])
               /\ UNCHANGED <<results, mutex>>
       /\ UNCHANGED <<fsys, now, completedCount, mainpc, pending, targets,
                      joined, announced,
                      progress, call, frame, tieOrder>>

\* A task calls manager.update(path, size, isPartial, elapsed)
UpdateLock(t) == UpdateEnter(t, calculationTasks[t])

\* it->calculated = true
UpdateCalculated(t) ==
    LET task == calculationTasks[t]
    IN /\ task.pc = "setCalculated"
       /\ results' = [results EXCEPT ![task.it].calculated = TRUE]
       /\ SetTask(t, [task EXCEPT !.pc = "setPartial"])
       /\ UNCHANGED <<fsys, now, completedCount, mutex, mainpc, pending,
                      targets, joined, announced,
                      progress, call, frame, tieOrder>>

\* it->isPartial = partial
UpdatePartial(t) ==
    LET task == calculationTasks[t]
    IN /\ task.pc = "setPartial"
       /\ results' = [results EXCEPT ![task.it].isPartial = task.isPartial]
       /\ SetTask(t, [task EXCEPT !.pc = "setElapsed"])
       /\ UNCHANGED <<fsys, now, completedCount, mutex, mainpc, pending,
                      targets, joined, announced,
                      progress, call, frame, tieOrder>>

\* it->elapsed = elapsedTime
UpdateElapsed(t) ==
    LET task == calculationTasks[t]
    IN /\ task.pc = "setElapsed"
       /\ results' = [results EXCEPT ![task.it].elapsed = task.elapsed]
       /\ SetTask(t, [task EXCEPT !.pc = "count"])
       /\ UNCHANGED <<fsys, now, completedCount, mutex, mainpc, pending,
                      targets, joined, announced,
                      progress, call, frame, tieOrder>>

\* completedCount++; cv.notify_all(); and the lock_guard's release
UpdateCount(t) ==
    LET task == calculationTasks[t]
    IN /\ task.pc = "count"
       /\ completedCount' = completedCount + 1
       /\ mutex' = 0
       /\ SetTask(t, [task EXCEPT !.pc = "updated"])
       /\ UNCHANGED <<fsys, now, results, mainpc, pending, targets, joined,
                      announced,
                      progress, call, frame, tieOrder>>

\* update has returned: the lambda returns and the future becomes ready
TaskFinish(t) ==
    LET task == calculationTasks[t]
    IN /\ task.pc = "updated"
       /\ mainpc # "harness"
       /\ SetTask(t, [task EXCEPT !.pc = "done"])
       /\ UNCHANGED <<fsys, now, results, completedCount, mutex, mainpc,
                      pending, targets, joined, announced,
                      progress, call, frame, tieOrder>>

TaskStep(t) ==
    \/ TaskStart(t) \/ TaskVisit(t) \/ TaskGetTopN(t)
    \/ TaskReadCompleted(t) \/ TaskReadTotal(t)
    \/ TaskAbort(t) \/ TaskContinue(t)
    \/ UpdateLock(t) \/ UpdateCalculated(t) \/ UpdatePartial(t)
    \/ UpdateElapsed(t) \/ UpdateCount(t) \/ TaskFinish(t)

(***************************************************************************)
(* main                                                                    *)
(***************************************************************************)
\* Phase 1: the next manager.addTarget(root) of collectTargetPaths
MainAddTarget ==
    /\ mainpc = "collect"
    /\ pending # <<>>
    /\ CanLock
    /\ results' = addTarget(results, Head(pending))
    /\ pending' = Tail(pending)
    /\ UNCHANGED <<fsys, now, completedCount, mutex, mainpc, targets,
                   calculationTasks, joined, announced,
                      progress, call, frame, tieOrder>>

\* auto results = manager.getTopN(manager.totalTargets());
MainSnapshot ==
    /\ mainpc = "collect"
    /\ pending = <<>>
    /\ CanLock
    /\ \E r \in getTopN(results, totalTargets(results)) :
          /\ targets' = r
          /\ mainpc' = IF r = <<>> THEN "poll" ELSE "launch"
    /\ UNCHANGED <<fsys, now, results, completedCount, mutex, pending,
                   calculationTasks, joined, announced,
                      progress, call, frame, tieOrder>>

\* Mutant: every task is handed the path of the first target.
LaunchPath_First(tgts, k) == tgts[1].path

\* The argument the k-th std::async call binds to the lambda: target.path
LaunchPath(tgts, k) == tgts[k].path

\* Mutant: main does not wait for the task.
FutureReady_NoWait(task) == TRUE

\* task.wait() returns: the shared state of the future is ready
FutureReady(task) == task.pc = "done"

\* Phase 2: calculationTasks.push_back(std::async(std::launch::async, ...,
\* target.path)) for the next target of the snapshot
MainLaunch ==
    /\ mainpc = "launch"
    /\ calculationTasks' =
          Append(calculationTasks,
                 NewTask(LaunchPath(targets, Len(calculationTasks) + 1)))
    /\ mainpc' = IF Len(calculationTasks) + 1 = Len(targets)
                 THEN "poll" ELSE "launch"
    /\ UNCHANGED <<fsys, now, results, completedCount, mutex, pending,
                   targets, joined, announced,
                      progress, call, frame, tieOrder>>

\* Phase 3: while (!manager.isComplete()) { displayResults; sleep }.
\* displayResults only reads the registry.
MainPoll ==
    /\ mainpc = "poll"
    /\ CanLock
    /\ mainpc' = IF isComplete(results) THEN "final" ELSE "poll"
    /\ UNCHANGED <<fsys, now, results, completedCount, mutex, pending,
                   targets, calculationTasks, joined, announced,
                      progress, call, frame, tieOrder>>

\* The final displayResults, which reads completedTargets() and then
\* totalTargets() for its progress line, and "Analysis complete!"
MainAnnounce ==
    /\ mainpc = "final"
    /\ CanLock
    /\ progress' = [completed |-> completedTargets,
                    total |-> totalTargets(results)]
    /\ announced' = TRUE
    /\ mainpc' = "join"
    /\ UNCHANGED <<fsys, now, results, completedCount, mutex, pending,
                   targets, calculationTasks, joined, call, frame, tieOrder>>

\* task.wait() on the next future returns once its task has finished
MainJoin ==
    /\ mainpc = "join"
    /\ joined < Len(calculationTasks)
    /\ FutureReady(calculationTasks[joined + 1])
    /\ joined' = joined + 1
    /\ UNCHANGED <<fsys, now, results, completedCount, mutex, mainpc,
                   pending, targets, calculationTasks, announced,
                      progress, call, frame, tieOrder>>

\* return 0;
MainReturn ==
    /\ mainpc = "join"
    /\ joined = Len(calculationTasks)
    /\ mainpc' = "done"
    /\ UNCHANGED <<fsys, now, results, completedCount, mutex, pending,
                   targets, calculationTasks, joined, announced,
                      progress, call, frame, tieOrder>>

MainStep ==
    \/ MainAddTarget \/ MainSnapshot \/ MainLaunch \/ MainPoll
    \/ MainAnnounce \/ MainJoin \/ MainReturn

\* The steady clock advances while the process runs.
Tick ==
    /\ now < MaxClock
    /\ mainpc # "done"
    /\ now' = now + 1
    /\ UNCHANGED <<fsys, results, completedCount, mutex, mainpc, pending,
                   targets, calculationTasks, joined, announced,
                      progress, call, frame, tieOrder>>

Init ==
    /\ fsys \in FileSystems
    /\ now = 0
    /\ results = <<>>
    /\ completedCount = 0
    /\ mutex = 0
    /\ mainpc = "collect"
    /\ call = [root |-> ROOT, maxDepth |-> MAX_DEPTH]
    /\ pending = collectTargetPaths(fsys, call.root, 0, call.maxDepth)
    /\ targets = <<>>
    /\ calculationTasks = <<>>
    /\ joined = 0
    /\ announced = FALSE
    /\ progress = [completed |-> 0, total |-> 0]
    /\ frame = <<>>
    /\ tieOrder = [i \in 1..MaxEntries |-> i]

Next ==
    \/ MainAddTarget
    \/ MainSnapshot
    \/ MainLaunch
    \/ MainPoll
    \/ MainAnnounce
    \/ MainJoin
    \/ MainReturn
    \/ \E t \in Tasks : TaskStart(t)
    \/ \E t \in Tasks : TaskVisit(t)
    \/ \E t \in Tasks : TaskGetTopN(t)
    \/ \E t \in Tasks : TaskReadCompleted(t)
    \/ \E t \in Tasks : TaskReadTotal(t)
    \/ \E t \in Tasks : TaskAbort(t)
    \/ \E t \in Tasks : TaskContinue(t)
    \/ \E t \in Tasks : UpdateLock(t)
    \/ \E t \in Tasks : UpdateCalculated(t)
    \/ \E t \in Tasks : UpdatePartial(t)
    \/ \E t \in Tasks : UpdateElapsed(t)
    \/ \E t \in Tasks : UpdateCount(t)
    \/ \E t \in Tasks : TaskFinish(t)
    \/ Tick

Spec == Init /\ [][Next]_vars

\* Every launched task is a thread of its own and main is one: each keeps
\* being scheduled.  The clock needs no fairness.
NumTargets == Len(collectTargetPaths("readable", ROOT, 0, MAX_DEPTH))

FairSpec ==
    /\ Spec
    /\ WF_vars(MainStep)
    /\ \A t \in 1..NumTargets : WF_vars(t \in Tasks /\ TaskStep(t))

(***************************************************************************)
(* SpecRM: the ResultManager alone.  NumCallers threads call update with  *)
(* any path and values, while the main thread adds targets and reads      *)
(* getTopN and the two counters, in any interleaving.                      *)
(***************************************************************************)
RMPaths == {<<"a">>, <<"b">>}

RMSizes == 1..MaxSize

IdleCaller == [NewTask(<<>>) EXCEPT !.pc = "idle"]

Callers == 1..NumCallers

\* manager.addTarget(p)
RMAddTarget(p) ==
    /\ mainpc = "harness"
    /\ CanLock
    /\ Len(results) < MaxEntries
    /\ results' = addTarget(results, p)
    /\ UNCHANGED <<fsys, now, completedCount, mutex, mainpc, pending,
                   targets, calculationTasks, joined, announced, progress, call, frame, tieOrder>>

\* manager.getTopN(n), its result dropped: the call only reads.
RMGetTopN(n) ==
    /\ mainpc = "harness"
    /\ CanLock
    /\ \E r \in getTopN(results, n) : Len(r) <= n
    /\ UNCHANGED vars

\* size_t completed = manager.completedTargets();   (as displayResults)
RMCompletedTargets ==
    /\ mainpc = "harness"
    /\ progress' = [progress EXCEPT !.completed = completedTargets]
    /\ mainpc' = "readTotal"
    /\ UNCHANGED <<fsys, now, results, completedCount, mutex, pending,
                   targets, calculationTasks, joined, announced, call, frame, tieOrder>>

\* size_t total = manager.totalTargets();
RMTotalTargets ==
    /\ mainpc = "readTotal"
    /\ CanLock
    /\ progress' = [progress EXCEPT !.total = totalTargets(results)]
    /\ mainpc' = "harness"
    /\ UNCHANGED <<fsys, now, results, completedCount, mutex, pending,
                   targets, calculationTasks, joined, announced, call, frame, tieOrder>>

\* Caller c calls manager.update(p, s, partial, elapsed)
RMUpdate(c, p, s, partial) ==
    /\ calculationTasks[c].pc = "idle"
    /\ UpdateEnter(c, [IdleCaller EXCEPT
                         !.pc = "update", !.path = p, !.size = s,
                         !.isPartial = partial, !.elapsed = s * MsPerUnit])

\* update has returned to the caller; its arguments go out of scope.
RMReturn(c) ==
    /\ calculationTasks[c].pc = "updated"
    /\ SetTask(c, IdleCaller)
    /\ UNCHANGED <<fsys, now, results, completedCount, mutex, mainpc,
                   pending, targets, joined, announced, progress, call, frame, tieOrder>>

InitRM ==
    /\ fsys = "readable"
    /\ now = 0
    /\ results = <<>>
    /\ completedCount = 0
    /\ mutex = 0
    /\ mainpc = "harness"
    /\ pending = <<>>
    /\ targets = <<>>
    /\ calculationTasks = [c \in Callers |-> IdleCaller]
    /\ joined = 0
    /\ announced = FALSE
    /\ progress = [completed |-> 0, total |-> 0]
    /\ frame = <<>>
    /\ tieOrder = [i \in 1..MaxEntries |-> i]
    /\ call = [root |-> ROOT, maxDepth |-> MAX_DEPTH]

NextRM ==
    \/ \E p \in RMPaths : RMAddTarget(p)
    \/ \E n \in 0..(MaxEntries + 1) : RMGetTopN(n)
    \/ RMCompletedTargets
    \/ RMTotalTargets
    \/ \E c \in Callers : \E p \in RMPaths, s \in RMSizes, partial \in BOOLEAN :
          RMUpdate(c, p, s, partial)
    \/ \E c \in Callers : UpdateCalculated(c)
    \/ \E c \in Callers : UpdatePartial(c)
    \/ \E c \in Callers : UpdateElapsed(c)
    \/ \E c \in Callers : UpdateCount(c)
    \/ \E c \in Callers : RMReturn(c)

SpecRM == InitRM /\ [][NextRM]_vars

(***************************************************************************)
(* SpecCollect: collectTargetPaths alone, called on any path of the file   *)
(* system as root and with any maxDepth, on an empty registry.             *)
(***************************************************************************)
CollectRoots == DOMAIN FileSystem

\* The outermost collectTargetPaths call returns to its caller.
CollectReturn ==
    /\ mainpc = "collect"
    /\ pending = <<>>
    /\ mainpc' = "collected"
    /\ UNCHANGED <<fsys, now, results, completedCount, mutex, pending,
                   targets, calculationTasks, joined, announced, progress,
                   call, frame, tieOrder>>

InitCollect ==
    /\ fsys \in FileSystems
    /\ now = 0
    /\ results = <<>>
    /\ completedCount = 0
    /\ mutex = 0
    /\ mainpc = "collect"
    /\ call \in [root : CollectRoots, maxDepth : 0..MaxDepthArg]
    /\ pending = collectTargetPaths(fsys, call.root, 0, call.maxDepth)
    /\ targets = <<>>
    /\ calculationTasks = <<>>
    /\ joined = 0
    /\ announced = FALSE
    /\ progress = [completed |-> 0, total |-> 0]
    /\ frame = <<>>
    /\ tieOrder = [i \in 1..MaxEntries |-> i]

\* In SpecCollect the call is not main's: its caller does not go on to
\* take the snapshot.
NextCollect ==
    \/ MainAddTarget
    \/ CollectReturn

SpecCollect == InitCollect /\ [][NextCollect]_vars

(***************************************************************************)
(* SpecDisplay: displayResults(manager, MaxRows), frame after frame, on a  *)
(* registry of MaxEntries targets while NumCallers threads call update.    *)
(***************************************************************************)
DisplayTargets == <<<<"a">>, <<"b">>, <<"d">>, <<"e">>>>

\* std::sort is not stable, but the same vector gives the same order each
\* time: entries of equal size come in the order the build's sort leaves
\* them in, order[i] being the precedence of the entry at index i.
TieOrders ==
    {f \in [1..MaxEntries -> 1..MaxEntries] :
        \A i, j \in 1..MaxEntries : f[i] = f[j] => i = j}

\* getTopN(n) as a build whose sort breaks ties by order computes it
SortedBy(res, n, order) ==
    LET Precedes(j, i) ==
            \/ res[j].size > res[i].size
            \/ res[j].size = res[i].size /\ order[j] < order[i]
        Place(i) == 1 + Cardinality({j \in 1..Len(res) : Precedes(j, i)})
        sorted == [k \in 1..Len(res) |->
                      res[CHOOSE i \in 1..Len(res) : Place(i) = k]]
    IN  SubSeq(sorted, 1, IF n < Len(res) THEN n ELSE Len(res))

\* A row of the frame: the entry it shows, or a line left empty
Row(info) == [blank |-> FALSE, info |-> info]

BlankRow == [blank |-> TRUE, info |-> PathSizeInfo(<<>>, 0, FALSE)]

\* size_t completed = manager.completedTargets();
DisplayCompleted ==
    /\ mainpc = "display"
    /\ progress' = [progress EXCEPT !.completed = completedTargets]
    /\ mainpc' = "displayTotal"
    /\ UNCHANGED <<fsys, now, results, completedCount, mutex, pending,
                   targets, calculationTasks, joined, announced, call,
                   frame, tieOrder>>

\* size_t total = manager.totalTargets(); and the two header lines
DisplayTotal ==
    /\ mainpc = "displayTotal"
    /\ CanLock
    /\ progress' = [progress EXCEPT !.total = totalTargets(results)]
    /\ frame' = <<>>
    /\ mainpc' = "rows"
    /\ UNCHANGED <<fsys, now, results, completedCount, mutex, pending,
                   targets, calculationTasks, joined, announced, call,
                   tieOrder>>

\* One turn of the for loop: auto results = manager.getTopN(limit); and the
\* line of row i, which is empty when i >= results.size()
DisplayRow ==
    /\ mainpc = "rows"
    /\ Len(frame) < MaxRows
    /\ CanLock
    /\ LET r == SortedBy(results, MaxRows, tieOrder)
       IN  frame' = Append(frame, IF Len(frame) + 1 <= Len(r)
                                  THEN Row(r[Len(frame) + 1])
                                  ELSE BlankRow)
    /\ UNCHANGED <<fsys, now, results, completedCount, mutex, mainpc,
                   pending, targets, calculationTasks, joined, announced,
                   progress, call, tieOrder>>

\* The loop ends and displayResults returns; the next frame follows.
DisplayReturn ==
    /\ mainpc = "rows"
    /\ Len(frame) = MaxRows
    /\ mainpc' = "display"
    /\ UNCHANGED <<fsys, now, results, completedCount, mutex, pending,
                   targets, calculationTasks, joined, announced, progress,
                   call, frame, tieOrder>>

InitDisplay ==
    /\ fsys = "readable"
    /\ now = 0
    /\ results = [i \in 1..MaxEntries |->
                     PathSizeInfo(DisplayTargets[i], 0, FALSE)]
    /\ completedCount = 0
    /\ mutex = 0
    /\ mainpc = "display"
    /\ pending = <<>>
    /\ targets = <<>>
    /\ calculationTasks = [c \in Callers |-> IdleCaller]
    /\ joined = 0
    /\ announced = FALSE
    /\ progress = [completed |-> 0, total |-> 0]
    /\ call = [root |-> ROOT, maxDepth |-> MAX_DEPTH]
    /\ frame = <<>>
    /\ tieOrder \in TieOrders

NextDisplay ==
    \/ DisplayCompleted
    \/ DisplayTotal
    \/ DisplayRow
    \/ DisplayReturn
    \/ \E c \in Callers : \E i \in 1..MaxEntries, sz \in RMSizes :
          RMUpdate(c, DisplayTargets[i], sz, FALSE)
    \/ \E c \in Callers : UpdateCalculated(c)
    \/ \E c \in Callers : UpdatePartial(c)
    \/ \E c \in Callers : UpdateElapsed(c)
    \/ \E c \in Callers : UpdateCount(c)
    \/ \E c \in Callers : RMReturn(c)

SpecDisplay == InitDisplay /\ [][NextDisplay]_vars

(***************************************************************************)
(* Properties.                                                             *)
(***************************************************************************)
\* Every registered entry has calculated = true
AllCalculated == \A i \in 1..Len(results) : results[i].calculated

\* The tasks whose update wrote entry i
WritersOf(i) ==
    { t \in Tasks : calculationTasks[t].wrote /\ calculationTasks[t].it = i }

\* The largest size in the registry: the size of its top-1 entry
TopSize == CHOOSE m \in { results[i].size : i \in 1..Len(results) } :
              \A i \in 1..Len(results) : results[i].size <= m

\* C1 (Completeness): under fair scheduling every registered target's entry
\* eventually has calculated = true, also on the faulty file system; an
\* entry that is calculated never becomes pending again and at most one
\* task's update ever writes it.
C1_Completeness ==
    /\ <>(pending = <<>> /\ AllCalculated)
    /\ [][\A i \in 1..Len(results) :
            results[i].calculated => results'[i].calculated]_vars
    /\ [](\A i \in 1..Len(results) : Cardinality(WritersOf(i)) <= 1)

\* A run on the faulty file system has ended with every entry calculated.
C1_Witness ==
    /\ fsys = "faulty"
    /\ mainpc = "done"
    /\ results # <<>>
    /\ AllCalculated

RECURSIVE Accumulated(_)
\* The total accumulated so far for the target: the sum of the totals of
\* the activations on the stack
Accumulated(stack) ==
    IF stack = <<>> THEN 0
    ELSE Top(stack).total + Accumulated(SubSeq(stack, 1, Len(stack) - 1))

\* C2 (Partial-abort invariant, leader part), as claimed: whenever a task
\* takes the early-abort branch, the total it has accumulated for its target
\* exceeds the size of the registry's top-1 entry at that moment.
C2_AbortExceedsCurrentTop ==
    [][\A t \in Tasks :
         TaskAbort(t) =>
            Accumulated(calculationTasks[t].stack) > TopSize]_vars

\* C3 (Partial-abort invariant, last-straggler part): whenever a task takes
\* the early-abort branch every entry but its own is calculated, and an
\* entry recorded with isPartial = true is the last to become calculated.
C3_AbortOnlyLastStraggler ==
    /\ [][\A t \in Tasks :
            TaskAbort(t) =>
               \A i \in 1..Len(results) :
                  results[i].path # calculationTasks[t].path
                     => results[i].calculated]_vars
    /\ [](\A i \in 1..Len(results) :
            results[i].isPartial =>
               \A j \in 1..Len(results) : results[j].calculated)

\* An entry has been recorded as partial.
C3_Witness ==
    \E i \in 1..Len(results) :
        results[i].calculated /\ results[i].isPartial

Min(a, b) == IF a <= b THEN a ELSE b

Range(f) == { f[i] : i \in DOMAIN f }

\* Entries with calculated = true
NumCalculated ==
    Cardinality({ i \in 1..Len(results) : results[i].calculated })

\* Threads inside update that have written calculated and not yet counted
Uncounted ==
    { t \in Tasks :
        calculationTasks[t].pc \in {"setPartial", "setElapsed", "count"} }

\* C4 (Monotonic counters): under any interleaving of addTarget, update and
\* reads, completedCount never decreases, a read of completedTargets() is
\* never below the previous read and never above the number of entries
\* (nor above the totalTargets() read after it), and the counter is one
\* increment per entry that became calculated.
C4_MonotonicCounters ==
    /\ [][completedCount' >= completedCount]_vars
    /\ [][RMCompletedTargets =>
            progress'.completed >= progress.completed]_vars
    /\ [](/\ completedTargets <= totalTargets(results)
          /\ completedCount + Cardinality(Uncounted) = NumCalculated
          /\ progress.completed <= totalTargets(results)
          /\ mainpc = "harness" => progress.completed <= progress.total)

\* Every entry is calculated and counted, and the pair has been read.
C4_Witness ==
    /\ Len(results) = MaxEntries
    /\ completedCount = MaxEntries
    /\ mainpc = "harness"
    /\ progress.completed = MaxEntries

\* How many times the entry e occurs in seq
Occurrences(seq, e) == Cardinality({ i \in 1..Len(seq) : seq[i] = e })

\* r holds entries of the registry, each at most once, and no entry left out
\* is larger than one that is in r.
TakenFrom(r, res) ==
    /\ \A i \in 1..Len(r) : Occurrences(r, r[i]) <= Occurrences(res, r[i])
    /\ \A k \in 1..Len(res) :
          Occurrences(r, res[k]) < Occurrences(res, res[k]) =>
             \A i \in 1..Len(r) : res[k].size <= r[i].size

\* C5 (Ranking): in every reachable registry state in which the call can
\* take the lock, and for every n, getTopN(n) returns min(n, totalTargets)
\* entries of the registry in non-increasing order of size, and none of the
\* entries left out is larger than a returned one.  (The call sorts a copy:
\* RMGetTopN changes nothing.)
C5_Ranking ==
    (mainpc = "harness" /\ CanLock) =>
        \A n \in 0..(Len(results) + 1) :
            \A r \in getTopN(results, n) :
               /\ Len(r) = Min(n, totalTargets(results))
               /\ \A i, j \in 1..Len(r) : i < j => r[i].size >= r[j].size
               /\ TakenFrom(r, results)

\* The registry holds a smaller entry before a larger one: sorting matters.
C5_Witness ==
    /\ mainpc = "harness"
    /\ CanLock
    /\ Len(results) = MaxEntries
    /\ \E i, j \in 1..Len(results) :
          i < j /\ results[i].size < results[j].size /\ results[j].calculated

\* update(path, ...) finds no entry for path, or finds one already calculated
GuardedCall(path) ==
    \A i \in 1..Len(results) :
        (results[i].path = path /\ \A j \in 1..(i - 1) : results[j].path # path)
            => results[i].calculated

\* C6 (Duplicate-write guard): update on a path whose entry is already
\* calculated, or on a path with no entry, returns at once and leaves every
\* entry, the number of entries and the completed counter unchanged.
C6_DuplicateWriteGuard ==
    [][\A c \in Tasks :
         (/\ calculationTasks[c].pc = "idle"
          /\ calculationTasks'[c].pc # "idle"
          /\ GuardedCall(calculationTasks'[c].path)) =>
            /\ results' = results
            /\ completedCount' = completedCount
            /\ mutex' = mutex
            /\ calculationTasks'[c].pc = "updated"
            /\ ~calculationTasks'[c].wrote]_vars

\* An update on an already calculated entry has returned without writing.
C6_Witness ==
    \E c \in Tasks :
        /\ calculationTasks[c].pc = "updated"
        /\ ~calculationTasks[c].wrote
        /\ calculationTasks[c].it # 0
        /\ results[calculationTasks[c].it].calculated
        /\ \/ results[calculationTasks[c].it].size # calculationTasks[c].size
           \/ results[calculationTasks[c].it].isPartial
                 # calculationTasks[c].isPartial

\* C7 (isComplete): isComplete() is true exactly when every entry is
\* calculated (true for the empty registry); once main has seen it true,
\* with the target set frozen, every entry stays calculated, so it is true
\* on every later call, and completedTargets() equals totalTargets().
C7_IsComplete ==
    /\ [](isComplete(results) <=> AllCalculated)
    /\ [](mainpc \in {"final", "join", "done"} =>
            /\ isComplete(results)
            /\ AllCalculated
            /\ completedTargets = totalTargets(results))
    /\ [](announced => progress.completed = progress.total)
    /\ [][(mainpc # "collect" /\ AllCalculated) => AllCalculated']_vars

\* main has left the polling loop over a registry of several entries and
\* its final displayResults has read the counters.
C7_Witness ==
    /\ announced
    /\ progress.total > 1

\* A pending entry as addTarget made it
IsPending(e) == e = PathSizeInfo(e.path, 0, FALSE)

\* A calculated entry carrying the three values one task passed to update
IsWritten(e) ==
    /\ e.calculated
    /\ \E t \in Tasks :
          /\ calculationTasks[t].path = e.path
          /\ calculationTasks[t].wrote
          /\ e.size = calculationTasks[t].size
          /\ e.isPartial = calculationTasks[t].isPartial
          /\ e.elapsed = calculationTasks[t].elapsed

\* The entries of every getTopN result a thread holds
Snapshots ==
    Range(targets) \cup
    UNION { Range(calculationTasks[t].currentTop) : t \in Tasks }

\* C8 (No torn entry): every entry of a getTopN snapshot, and every entry
\* a getTopN call could copy (the mutex is free), is either pending with
\* size 0, isPartial false and elapsed 0, or calculated with exactly the
\* size, isPartial and elapsed of the update that wrote it.
C8_NoTornEntry ==
    /\ \A e \in Snapshots : IsPending(e) \/ IsWritten(e)
    /\ mutex = 0 =>
          \A i \in 1..Len(results) :
             IsPending(results[i]) \/ IsWritten(results[i])

\* A task holds a snapshot with a calculated entry while its own target,
\* and so the registry, is still being written to.
C8_Witness ==
    \E t \in Tasks :
        /\ calculationTasks[t].pc = "counts"
        /\ calculationTasks[t].currentTop # <<>>
        /\ calculationTasks[t].currentTop[1].calculated
        /\ calculationTasks[t].currentTop[1].elapsed > 0

\* C9 (Dispatch): once a computation is launched the registry's entries no
\* longer change in number or path; when launching is over there is exactly
\* one task per entry; each task calls update at most once, exactly once by
\* the time it has finished, on its own target's entry, and its write is
\* never dropped by the duplicate-write guard.
C9_Dispatch ==
    /\ [][calculationTasks # <<>> =>
            /\ Len(results') = Len(results)
            /\ \A i \in 1..Len(results) :
                  results'[i].path = results[i].path]_vars
    /\ [](calculationTasks # <<>> => pending = <<>>)
    /\ [](mainpc \in {"poll", "final", "join", "done"} =>
            /\ Len(calculationTasks) = Len(results)
            /\ \A i \in 1..Len(results) :
                  Cardinality({ t \in Tasks :
                     calculationTasks[t].path = results[i].path }) = 1)
    /\ [](\A t \in Tasks :
            /\ calculationTasks[t].updateCalls <= 1
            /\ calculationTasks[t].pc \in {"updated", "done"} =>
                  /\ calculationTasks[t].updateCalls = 1
                  /\ calculationTasks[t].wrote
                  /\ results[calculationTasks[t].it].path
                        = calculationTasks[t].path)

\* Several tasks have been launched, one per entry, and all have finished.
C9_Witness ==
    /\ Len(calculationTasks) > 1
    /\ Len(calculationTasks) = Len(results)
    /\ \A t \in Tasks : calculationTasks[t].pc = "done"

\* C10 (Two exit gates): "Analysis complete!" is printed only after
\* isComplete() returned true, and main returns only when every launched
\* task has finished.
C10_ExitGates ==
    /\ announced => (mainpc \in {"join", "done"} /\ AllCalculated)
    /\ mainpc = "done" =>
          /\ announced
          /\ joined = Len(calculationTasks)
          /\ \A t \in Tasks : calculationTasks[t].pc = "done"

\* The announcement is out while a task has yet to return from its lambda.
C10_Witness ==
    /\ announced
    /\ \E t \in Tasks : calculationTasks[t].pc = "updated"


(***************************************************************************)
(* Properties of the collection, of the sizing and of the display.         *)
(***************************************************************************)
\* The paths registered so far
Registered == { results[i].path : i \in 1..Len(results) }

\* The lower-case form of a character, read off the two alphabets
CaseFold(c) ==
    LET at == { i \in 1..Len(Upper) : Upper[i] = c }
    IN IF at = {} THEN c ELSE Lower[CHOOSE i \in at : TRUE]

\* The case-folded spelling of the normalized path
FoldedSpelling(p) ==
    LET w == wstring(LexicallyNormal(p))
    IN [i \in 1..Len(w) |-> CaseFold(w[i])]

\* A configured excluded path, case-folded, is a prefix of p's spelling
UnderExcludedPrefix(p) ==
    \E i \in 1..Len(EXCLUDED_PATHS) :
        LET ex == [k \in 1..Len(EXCLUDED_PATHS[i]) |->
                      CaseFold(EXCLUDED_PATHS[i][k])]
            w == FoldedSpelling(p)
        IN Len(ex) <= Len(w) /\ SubSeq(w, 1, Len(ex)) = ex

\* C11 (Exclusion invariant): for any root and any maxDepth, no path that
\* collectTargetPaths registers, or is about to register, has a configured
\* excluded path as a prefix once both are normalized and case-folded;
\* nothing in the subtree of the excluded directory C:\WINDOWS is registered.
C11_Exclusion ==
    \A p \in Registered \cup Range(pending) :
        /\ ~UnderExcludedPrefix(p)
        /\ ~(Len(p) >= 1 /\ p[1] = "WINDOWS")

\* A collection from C:\ deep enough to meet the entries of the excluded
\* directory has returned with targets registered.
C11_Witness ==
    /\ mainpc = "collected"
    /\ call.root = <<>>
    /\ call.maxDepth >= 2
    /\ Registered # {}
    /\ UnderExcludedPrefix(<<"WINDOWS", "x">>)

\* p is a symbolic link (whatever it points to)
IsLink(p) == p \in DOMAIN FileSystem /\ FileSystem[p].type = "symlink"

\* p or one of its ancestor directories below the path top is a link
LinkOnWay(top, p) ==
    \E n \in (Len(top) + 1)..Len(p) : IsLink(SubSeq(p, 1, n))

RECURSIVE SumOver(_, _)
\* The sum of f[x] over the elements x of the set S
SumOver(f, S) ==
    IF S = {} THEN 0
    ELSE LET x == CHOOSE y \in S : TRUE
         IN f[x] + SumOver(f, S \ {x})

\* The true size of p: the size of a file, or the sum of the sizes of the
\* regular files below the directory p that are not links and are not
\* reached through a link.
TrueSize(p) ==
    IF FileSystem[p].type = "file" THEN FileSystem[p].size
    ELSE SumOver([q \in DOMAIN FileSystem |-> FileSystem[q].size],
                 { q \in DOMAIN FileSystem :
                     /\ Len(q) > Len(p)
                     /\ SubSeq(q, 1, Len(p)) = p
                     /\ FileSystem[q].type = "file"
                     /\ ~LinkOnWay(p, q) })

\* C12 (Symlink invariant): no registered target is a symbolic link; no
\* activation of the directory sizing runs on a link or below one, and no
\* total holds more than the files that are not links and not behind one.
C12_SymlinkInvariant ==
    /\ \A p \in Registered : ~IsLink(p)
    /\ \A t \in Tasks :
          LET task == calculationTasks[t]
          IN /\ \A k \in 1..Len(task.stack) :
                   /\ ~LinkOnWay(task.path, task.stack[k].dir)
                   /\ task.stack[k].total <= TrueSize(task.stack[k].dir)
             /\ task.pc \in {"update", "done"} =>
                   task.size <= TrueSize(task.path)

\* The sizing of d has passed the link l to a file and the link j to a
\* directory and counted every other file, and the link n, which lies at
\* the target depth, was not registered.
C12_Witness ==
    /\ mainpc = "done"
    /\ IsLink(<<"U", "b", "n">>)
    /\ IsLink(<<"U", "b", "d", "l">>)
    /\ IsLink(<<"U", "b", "d", "s", "j">>)
    /\ \E t \in Tasks :
          /\ calculationTasks[t].path = <<"U", "b", "d">>
          /\ calculationTasks[t].size = 6

\* depth of p counted from the root of the call (root = 0)
DepthFromRoot(root, p) == Len(p) - Len(root)

\* p is root or lies below it, and every directory on the way from root to
\* p, root included, is one the collection may enter: not excluded, and a
\* directory by status().
ReachableFrom(root, p) ==
    /\ p \in DOMAIN FileSystem
    /\ Len(p) >= Len(root)
    /\ SubSeq(p, 1, Len(root)) = root
    /\ \A n \in Len(root)..(Len(p) - 1) :
          LET anc == SubSeq(p, 1, n)
          IN /\ ~UnderExcludedPrefix(anc)
             /\ FileSystem[anc].type = "dir"
                  \/ (FileSystem[anc].type = "symlink"
                        /\ FileSystem[anc].to = "dir")

\* The targets of a collection from root with maxDepth, depth counted from
\* root: everything at depth maxDepth, and the regular files above it.
ExpectedTargets(root, maxDepth) ==
    { p \in DOMAIN FileSystem :
        /\ ReachableFrom(root, p)
        /\ ~IsLink(p)
        /\ ~UnderExcludedPrefix(p)
        /\ \/ DepthFromRoot(root, p) = maxDepth
           \/ /\ DepthFromRoot(root, p) < maxDepth
              /\ FileSystem[p].type = "file" }

\* C13 (Target selection): on the readable file system, for any root and
\* any maxDepth >= 1, the collection registers exactly the paths at depth
\* maxDepth from the root and the regular files at smaller depth.
C13_TargetSelection ==
    (mainpc = "collected" /\ fsys = "readable" /\ call.maxDepth >= 1) =>
        Registered = ExpectedTargets(call.root, call.maxDepth)

\* C14 (Size correctness): on the readable file system every calculated
\* entry a reader can see has a size of at most the true size of its
\* target, and exactly the true size when isPartial is false.
C14_SizeCorrectness ==
    (fsys = "readable" /\ CanLock) =>
        \A i \in 1..Len(results) :
            results[i].calculated =>
                /\ results[i].size <= TrueSize(results[i].path)
                /\ ~results[i].isPartial =>
                      results[i].size = TrueSize(results[i].path)

\* A run on the readable file system has ended with a file target, a
\* directory target of full size and a partial directory target.
C14_Witness ==
    /\ fsys = "readable"
    /\ mainpc = "done"
    /\ \E i, j, k \in 1..Len(results) :
          /\ FileSystem[results[i].path].type = "file"
          /\ results[i].size = TrueSize(results[i].path)
          /\ FileSystem[results[j].path].type = "dir"
          /\ ~results[j].isPartial
          /\ results[j].size = TrueSize(results[j].path)
          /\ results[k].isPartial
          /\ results[k].size < TrueSize(results[k].path)

\* By the task's own reads at this check, the budget is exceeded, the
\* target is the last uncompleted one, and what it has accumulated exceeds
\* the top-1 size.
AbortDue(task) ==
    /\ task.pc = "decide"
    /\ task.completedRead = task.totalRead - 1
    /\ task.currentTop # <<>>
    /\ Accumulated(task.stack) > task.currentTop[1].size

\* An activation of the task has taken the abort branch
HasAborted(task) == \E k \in 1..Len(task.stack) : task.stack[k].isPartial

\* C15 (Abort trigger): at a check, at any nesting level, where the budget
\* is exceeded, the target is the last uncompleted one and its accumulated
\* total exceeds the top-1 size, the entry is not processed; once an
\* activation has aborted no further entry of the target is processed at
\* any level; and an abort marks the result partial.
C15_AbortTrigger ==
    /\ [][\A t \in Tasks :
            TaskContinue(t) => ~AbortDue(calculationTasks[t])]_vars
    /\ [][\A t \in Tasks :
            TaskContinue(t) => ~HasAborted(calculationTasks[t])]_vars
    /\ [][\A t \in Tasks :
            TaskAbort(t) => \/ HasAborted(calculationTasks'[t])
                            \/ calculationTasks'[t].isPartial]_vars

\* A filesystem operation on the entry p fails on the file system in use
EntryFails(p) ==
    \E op \in {"symlink_status", "status", "file_size", "open"} :
        Throws(fsys, p, op)

\* C16 (Per-entry error isolation): when the loop of a directory moves past
\* an entry on which a filesystem operation fails, the entry adds nothing
\* to the directory's total and the loop goes on with the remaining
\* sibling entries.
C16_ErrorIsolation ==
    [][\A t \in Tasks :
         LET task == calculationTasks[t]
             after == calculationTasks'[t]
             depth == Len(task.stack)
             f == Top(task.stack)
         IN (/\ TaskVisit(t) \/ TaskContinue(t)
             /\ after.stack # task.stack
             /\ EntryFails(Head(f.rest))
             /\ Tail(f.rest) # <<>>)
            => /\ Len(after.stack) >= depth
               /\ after.stack[depth].dir = f.dir
               /\ after.stack[depth].rest = Tail(f.rest)
               /\ after.stack[depth].total = f.total]_vars

\* The entries recorded as partial, and the tasks that took the abort branch
PartialEntries == { i \in 1..Len(results) : results[i].isPartial }

AbortedTasks ==
    { t \in Tasks : \/ HasAborted(calculationTasks[t])
                    \/ calculationTasks[t].isPartial }

\* C17 (At most one partial result per run): in every reachable state at
\* most one entry has isPartial = true and at most one task has taken the
\* abort branch.
C17_AtMostOnePartial ==
    /\ Cardinality(PartialEntries) <= 1
    /\ Cardinality(AbortedTasks) <= 1

\* One entry is partial, and another directory task also ran past its
\* budget: it came to the check and went on.
C17_Witness ==
    \E i, j \in 1..Len(results) :
        /\ i # j
        /\ results[i].isPartial
        /\ results[j].calculated
        /\ ~results[j].isPartial
        /\ FileSystem[results[j].path].type = "dir"
        /\ results[j].elapsed >= timeLimit * MsPerUnit

\* Path p is q or an ancestor directory of q
CoversPath(p, q) == Len(p) <= Len(q) /\ SubSeq(q, 1, Len(p)) = p

\* The file or directory the path p names once the link on its way, if
\* there is one, is replaced by the directory the link names
Physical(p) ==
    LET through == { l \in DOMAIN LinkTarget : CoversPath(l, p) }
    IN IF through = {} THEN p
       ELSE LET l == CHOOSE x \in through : TRUE
            IN LinkTarget[l] \o SubSeq(p, Len(l) + 1, Len(p))

\* The regular files of the volume
Files == { q \in DOMAIN FileSystem :
             FileSystem[q].type = "file" /\ Physical(q) = q }

\* C18 (No double counting): during and after a collection from any root
\* with any maxDepth, no two registry entries have the same path, no
\* entry's path is an ancestor directory of another entry's path, and every
\* file is covered by at most one target.
C18_NoDoubleCounting ==
    /\ \A i, j \in 1..Len(results) :
          i # j => /\ results[i].path # results[j].path
                   /\ ~CoversPath(results[i].path, results[j].path)
    /\ \A q \in Files :
          Cardinality({ i \in 1..Len(results) :
                          CoversPath(Physical(results[i].path), q) }) <= 1

\* C19 (Collection never traverses a symbolic link): no path the collection
\* registers has a symbolic link among its ancestor directories below the
\* root of the call.
C19_NoLinkTraversal ==
    \A p \in Registered :
        \A n \in (Len(call.root) + 1)..(Len(p) - 1) :
            ~IsLink(SubSeq(p, 1, n))

\* The rows of the frame that show an entry, in the order written
ShownRows == SelectSeq(frame, LAMBDA row : ~row.blank)

\* C20 (Frame consistency), as claimed: the rows of one frame list each
\* target path at most once, and the rows that show a size are in
\* non-increasing order of size.
C20_FrameConsistency ==
    \A i, j \in 1..Len(ShownRows) :
        i < j =>
            /\ ShownRows[i].info.path # ShownRows[j].info.path
            /\ (ShownRows[i].info.calculated /\ ShownRows[j].info.calculated)
                  => ShownRows[i].info.size >= ShownRows[j].info.size

=============================================================================
